---- MODULE Spec2Model ----
(***************************************************************************)
(* The todo state-management core of src/todo-app/src/app/page.tsx:        *)
(* the reducer (todoReducer), the persistence bridge (useTodos: the load   *)
(* effect and the write-back effect over one localStorage slot) and the    *)
(* intent handlers of Home that dispatch into the reducer.                 *)
(*                                                                         *)
(* The specifications share the variables:                                 *)
(*   Spec       the mounted component: mount effects, re-render, the       *)
(*              write-back effect after every committed state, and the     *)
(*              handlers the rendered page offers;                         *)
(*   LiveSpec   Spec, with the effects and the render they cause being     *)
(*              run, as React runs them;                                   *)
(*   StoreSpec  todoReducer alone, applied to arbitrary actions (ids that  *)
(*              are absent, tasks of any shape), for the laws stated of    *)
(*              the reducer as a pure function.                            *)
(*                                                                         *)
(* Scheduling.  React runs the effects of the first commit, renders the    *)
(* updates they enqueued and runs the effects of that commit before it     *)
(* handles an event; an event handler's dispatch is rendered and           *)
(* committed, and the effects of the commit run, before the next event.    *)
(* An exception that leaves an effect unmounts the tree (pc = "crashed").  *)
(* An id from crypto.randomUUID or Math.random is taken never to repeat.   *)
(*                                                                         *)
(* Values.  A JavaScript string that the code trims is a sequence of       *)
(* one-character strings; a Todo object is a function from its own         *)
(* property names to values, so that "property present with the value      *)
(* undefined" and "property absent" are different objects, as they are to  *)
(* JSON.stringify.  A text held by the storage slot is represented by what *)
(* JSON.parse makes of it.                                                 *)
(***************************************************************************)
EXTENDS Integers, Sequences, FiniteSets, TLC

VARIABLES
    state,      \* useReducer state of useTodos: the committed Todo[]
    hydrated,   \* useState(false) of useTodos: the ready latch
    storage,    \* window.localStorage slot STORAGE_KEY
    pc,         \* position of the component in React's schedule
    queued,     \* updates enqueued by the load effect, applied by the next render
    issued,     \* ids already handed out (by this session or a stored one)
    initial,    \* history: the slot as the session found it
    outcome,    \* history: how the startup read ended
    lastWrite,  \* history: what the latest run of the write-back effect did
    latchSets,  \* history: number of commits that changed hydrated
    unsaved,    \* history: commits of a change minus calls of setItem that returned
    reads,      \* history: number of calls of getItem
    hydrations, \* history: number of hydrate actions todoReducer was given
    handled,    \* history: an event handler has dispatched
    trail,      \* history (StoreSpec): the states the store went through
    action      \* history (StoreSpec): the latest action given to todoReducer

vars == <<state, hydrated, storage, pc, queued, issued, initial, outcome,
          lastWrite, latchSets, unsaved, reads, hydrations, handled,
          trail, action>>

----------------------------------------------------------------------------
(* Bounds of the model *)

MaxIds == 2
MaxStored == 2
MaxStoreIds == 3
MaxLen == 3

Ids == 1..MaxIds

----------------------------------------------------------------------------
(* JavaScript values *)

Undefined == "undefined"

SomeDate == "2026-01-01"

IsSpace(c) == c = " "

RECURSIVE TrimStart(_)
TrimStart(s) ==
    IF s # <<>> /\ IsSpace(Head(s)) THEN TrimStart(Tail(s)) ELSE s

RECURSIVE TrimEnd(_)
TrimEnd(s) ==
    IF s # <<>> /\ IsSpace(s[Len(s)]) THEN TrimEnd(SubSeq(s, 1, Len(s) - 1)) ELSE s

\* String.prototype.trim
Trim(s) == TrimEnd(TrimStart(s))

\* v || undefined, for a string or undefined v
OrUndefined(v) == IF v = "" \/ v = Undefined THEN Undefined ELSE v

\* { ...todo, ...data }
Spread(todo, data) ==
    [k \in (DOMAIN todo) \cup (DOMAIN data) |->
        IF k \in DOMAIN data THEN data[k] ELSE todo[k]]

EmptyObject == [k \in {} |-> Undefined]

----------------------------------------------------------------------------
(* The storage slot and JSON *)

NullItem == [kind |-> "null"]          \* getItem returns null: no value stored
EmptyText == [kind |-> "empty"]        \* the stored text is ""
Malformed == [kind |-> "malformed"]    \* a stored text JSON.parse throws on
JsonText(items) == [kind |-> "json", items |-> items]

\* if (stored)
Truthy(stored) == stored.kind \notin {"null", "empty"}

\* JSON.parse returns for these texts and throws for the others
Parseable(stored) == stored.kind = "json"

JSONparse(stored) == stored.items

\* (mutation) a serializer that writes null for a property that is undefined
StringifyObjectWritesNull(todo) ==
    [k \in DOMAIN todo |->
        IF k = "dueDate" /\ todo[k] = Undefined THEN "null" ELSE todo[k]]

\* JSON.stringify of one object: a property whose value is undefined is left out
StringifyObject(todo) ==
    [k \in {j \in DOMAIN todo : j = "dueDate" => todo[j] # Undefined} |-> todo[k]]

\* JSON.stringify(state)
JSONstringify(todos) ==
    JsonText([i \in 1..Len(todos) |-> StringifyObject(todos[i])])

----------------------------------------------------------------------------
(* todoReducer *)

HydrateAction(todos) == [type |-> "hydrate", payload |-> todos]
AddAction(todo) == [type |-> "add", payload |-> todo]
ToggleAction(id) == [type |-> "toggle", payload |-> [id |-> id]]
RemoveAction(id) == [type |-> "remove", payload |-> [id |-> id]]
UpdateAction(id, data) == [type |-> "update", payload |-> [id |-> id, data |-> data]]
ClearCompletedAction == [type |-> "clearCompleted"]
NoAction == [type |-> "none"]

\* (mutation) hydrate keeps only the tasks still to do
HydrateCaseDropsCompleted(s, payload) == SelectSeq(payload, LAMBDA todo : ~todo.completed)

\* case "hydrate"
HydrateCase(s, payload) == payload

\* (mutation) add pushes the task at the end
AddCaseAppends(s, payload) == s \o <<payload>>

\* case "add"
AddCase(s, payload) == <<payload>> \o s

\* (mutation) toggle moves the task it toggles to the end of the list
ToggleCaseSinks(s, payload) ==
    SelectSeq(s, LAMBDA todo : todo.id # payload.id)
        \o [i \in 1..Len(SelectSeq(s, LAMBDA todo : todo.id = payload.id)) |->
              [SelectSeq(s, LAMBDA todo : todo.id = payload.id)[i]
                  EXCEPT !.completed = ~@]]

\* (mutation) toggle inverts the flag of every task
ToggleCaseAll(s, payload) ==
    [i \in 1..Len(s) |-> [s[i] EXCEPT !.completed = ~@]]

\* (mutation) toggle marks the task completed instead of inverting the flag
ToggleCaseMarksDone(s, payload) ==
    [i \in 1..Len(s) |->
        IF s[i].id = payload.id THEN Spread(s[i], [completed |-> TRUE]) ELSE s[i]]

\* case "toggle"
ToggleCase(s, payload) ==
    [i \in 1..Len(s) |->
        IF s[i].id = payload.id
        THEN Spread(s[i], [completed |-> ~s[i].completed])
        ELSE s[i]]

\* (mutation) remove by splice(findIndex(...), 1): an absent id gives index -1,
\* and the last task goes
RemoveCaseSplices(s, payload) ==
    IF \E i \in 1..Len(s) : s[i].id = payload.id
    THEN SelectSeq(s, LAMBDA todo : todo.id # payload.id)
    ELSE SubSeq(s, 1, Len(s) - 1)

\* case "remove"
RemoveCase(s, payload) == SelectSeq(s, LAMBDA todo : todo.id # payload.id)

\* (mutation) update stamps the task it changes anew
UpdateCaseRestamps(s, payload) ==
    [i \in 1..Len(s) |->
        IF s[i].id = payload.id
        THEN [Spread(s[i], payload.data) EXCEPT !.createdAt = @ + 1]
        ELSE s[i]]

\* (mutation) update builds the task from the id and the partial alone
UpdateCaseReplaces(s, payload) ==
    [i \in 1..Len(s) |->
        IF s[i].id = payload.id
        THEN Spread([id |-> s[i].id], payload.data)
        ELSE s[i]]

\* (mutation) update of an id the state does not hold adds a task for it
UpdateCaseUpserts(s, payload) ==
    IF \E i \in 1..Len(s) : s[i].id = payload.id
    THEN [i \in 1..Len(s) |->
            IF s[i].id = payload.id THEN Spread(s[i], payload.data) ELSE s[i]]
    ELSE s \o <<Spread([id |-> payload.id], payload.data)>>

\* case "update"
UpdateCase(s, payload) ==
    [i \in 1..Len(s) |->
        IF s[i].id = payload.id THEN Spread(s[i], payload.data) ELSE s[i]]

\* (mutation) clearCompleted with the filter inverted
ClearCompletedCaseKeepsDone(s) == SelectSeq(s, LAMBDA todo : todo.completed)

\* case "clearCompleted"
ClearCompletedCase(s) == SelectSeq(s, LAMBDA todo : ~todo.completed)

todoReducer(s, a) ==
    CASE a.type = "hydrate" -> HydrateCase(s, a.payload)
      [] a.type = "add" -> AddCase(s, a.payload)
      [] a.type = "toggle" -> ToggleCase(s, a.payload)
      [] a.type = "remove" -> RemoveCase(s, a.payload)
      [] a.type = "update" -> UpdateCase(s, a.payload)
      [] a.type = "clearCompleted" -> ClearCompletedCase(s)
      [] OTHER -> s

IdsOf(s) == {s[i].id : i \in 1..Len(s)}

----------------------------------------------------------------------------
(* Inputs of the session *)

\* what the user may have typed in the title field and the notes field of a form
TextInputs ==
    {[title |-> <<>>, notes |-> <<"n">>],
     [title |-> <<" ">>, notes |-> <<>>],
     [title |-> <<" ", "a", " ">>, notes |-> <<"n", " ">>],
     [title |-> <<"b">>, notes |-> <<" ">>]}

\* event.target.value of an <input type="date">
DateInputValues == {"", SomeDate}

\* A Todo as addTodo builds it
NewTodo(id, title, notes, dueDate, createdAt) ==
    [id |-> id, title |-> Trim(title), notes |-> Trim(notes),
     dueDate |-> OrUndefined(dueDate), completed |-> FALSE, createdAt |-> createdAt]

\* A task an earlier session added: its fields vary with its id
PriorTodo(id, completed) ==
    [NewTodo(id, <<"b">>, <<>>, IF id % 2 = 1 THEN SomeDate ELSE "", 0)
        EXCEPT !.completed = completed]

\* The states an earlier session may have saved: n tasks, the latest first
PriorStates ==
    UNION {{[i \in 1..n |-> PriorTodo(n + 1 - i, done[i])] : done \in [1..n -> BOOLEAN]}
              : n \in 0..MaxStored}

\* The slot as a session may find it
InitialStorage ==
    {NullItem, EmptyText, Malformed} \cup {JSONstringify(s) : s \in PriorStates}

StoredIds(stored) ==
    IF Parseable(stored) THEN IdsOf(JSONparse(stored)) ELSE {}

----------------------------------------------------------------------------
(* useTodos: the mounted component *)

SetHydrated(value) == [type |-> "setHydrated", value |-> value]

Init ==
    /\ state = <<>>
    /\ hydrated = FALSE
    /\ storage \in InitialStorage
    /\ pc = "mountLoad"
    /\ queued = <<>>
    /\ issued = StoredIds(storage)
    /\ initial = storage
    /\ outcome = "pending"
    /\ lastWrite = "none"
    /\ latchSets = 0
    /\ unsaved = 0
    /\ reads = 0
    /\ hydrations = 0
    /\ handled = FALSE
    /\ trail = <<>>
    /\ action = NoAction

\* The body of the first effect of useTodos.  dispatch and setHydrated enqueue;
\* the updates are applied by the render that follows.  inFinally: setHydrated
\* is called in the finally block, whatever the try block did.
RunLoadEffect(inFinally) ==
    /\ pc = "mountLoad"
    /\ \E getItemThrows \in BOOLEAN :
          LET caught == getItemThrows \/ (Truthy(storage) /\ ~Parseable(storage))
              dispatched ==
                  IF ~caught /\ Truthy(storage)
                  THEN <<HydrateAction(JSONparse(storage))>>
                  ELSE <<>>
              latch == IF inFinally \/ ~caught THEN <<SetHydrated(TRUE)>> ELSE <<>>
          IN /\ outcome' = IF getItemThrows THEN "threw"
                           ELSE IF ~Truthy(storage) THEN "absent"
                           ELSE IF Parseable(storage) THEN "parsed"
                           ELSE "malformed"
             /\ queued' = dispatched \o latch
    /\ pc' = "mountWrite"
    /\ reads' = reads + 1
    /\ UNCHANGED <<state, hydrated, storage, issued, initial, lastWrite,
                   latchSets, unsaved, hydrations, handled, trail, action>>

\* (mutation) setHydrated(true) as the last statement of the try block
LoadEffectWithoutFinally == RunLoadEffect(FALSE)

\* The first effect of useTodos, run once after the first commit
LoadEffect == RunLoadEffect(TRUE)

\* (mutation) the effect stays scheduled after it wrote, and may run again
\* for the same commit
RunWriteBackEffectAgain(guard) ==
    /\ pc \in {"mountWrite", "effect"}
    /\ IF ~guard
       THEN /\ lastWrite' = "skipped"
            /\ pc' = IF pc = "mountWrite" THEN "render" ELSE "idle"
            /\ UNCHANGED <<storage, unsaved>>
       ELSE \E setItemThrows \in BOOLEAN :
              IF setItemThrows
              THEN /\ lastWrite' = "failed"
                   /\ pc' = "crashed"
                   /\ UNCHANGED <<storage, unsaved>>
              ELSE /\ lastWrite' = "wrote"
                   /\ \E again \in BOOLEAN :
                         pc' = IF again THEN pc
                               ELSE IF pc = "mountWrite" THEN "render" ELSE "idle"
                   /\ storage' = JSONstringify(state)
                   /\ unsaved' = unsaved - 1
    /\ UNCHANGED <<state, hydrated, queued, issued, initial, outcome,
                   latchSets, reads, hydrations, handled, trail, action>>

\* The body of the second effect of useTodos: it returns when guard is false
\* and calls setItem otherwise.  setItem is not in a try block: when it throws,
\* the error leaves the effect and React unmounts the tree.
RunWriteBackEffect(guard) ==
    /\ pc \in {"mountWrite", "effect"}
    /\ IF ~guard
       THEN /\ lastWrite' = "skipped"
            /\ pc' = IF pc = "mountWrite" THEN "render" ELSE "idle"
            /\ UNCHANGED <<storage, unsaved>>
       ELSE \E setItemThrows \in BOOLEAN :
              IF setItemThrows
              THEN /\ lastWrite' = "failed"
                   /\ pc' = "crashed"
                   /\ UNCHANGED <<storage, unsaved>>
              ELSE /\ lastWrite' = "wrote"
                   /\ pc' = IF pc = "mountWrite" THEN "render" ELSE "idle"
                   /\ storage' = JSONstringify(state)
                   /\ unsaved' = unsaved - 1
    /\ UNCHANGED <<state, hydrated, queued, issued, initial, outcome,
                   latchSets, reads, hydrations, handled, trail, action>>

\* (mutation) the effect without "if (!hydrated) return"
WriteBackEffectUnguarded == RunWriteBackEffect(TRUE)

\* (mutation) the effect also returns when there is no task to save
WriteBackEffectSkipsEmpty == RunWriteBackEffect(hydrated /\ state # <<>>)

\* The second effect of useTodos, run after the first commit and after every
\* commit that changed state or hydrated
WriteBackEffect == RunWriteBackEffect(hydrated)

RECURSIVE ApplyQueued(_, _)
ApplyQueued(s, updates) ==
    IF updates = <<>> THEN s
    ELSE ApplyQueued(IF Head(updates).type = "setHydrated" THEN s
                     ELSE todoReducer(s, Head(updates)),
                     Tail(updates))

\* (mutation) the write-back effect depends on state alone: a commit that
\* changed hydrated and left the tasks as they were does not run it
RerenderRunsEffectForStateOnly ==
    /\ pc = "render"
    /\ state' = ApplyQueued(state, queued)
    /\ hydrated' = IF \E i \in 1..Len(queued) : queued[i].type = "setHydrated"
                   THEN TRUE ELSE hydrated
    /\ latchSets' = IF hydrated' # hydrated THEN latchSets + 1 ELSE latchSets
    /\ queued' = <<>>
    /\ pc' = IF state' # state THEN "effect" ELSE "idle"
    /\ unsaved' = IF state' # state THEN unsaved + 1 ELSE unsaved
    /\ hydrations' =
          hydrations + Cardinality({i \in 1..Len(queued) : queued[i].type = "hydrate"})
    /\ UNCHANGED <<storage, issued, initial, outcome, lastWrite, reads, handled,
                   trail, action>>

\* The render React makes of the updates the mount effects enqueued
Rerender ==
    /\ pc = "render"
    /\ state' = ApplyQueued(state, queued)
    /\ hydrated' = IF \E i \in 1..Len(queued) : queued[i].type = "setHydrated"
                   THEN TRUE ELSE hydrated
    /\ latchSets' = IF hydrated' # hydrated THEN latchSets + 1 ELSE latchSets
    /\ queued' = <<>>
    /\ pc' = IF queued # <<>> THEN "effect" ELSE "idle"
    /\ unsaved' = IF queued # <<>> THEN unsaved + 1 ELSE unsaved
    /\ hydrations' =
          hydrations + Cardinality({i \in 1..Len(queued) : queued[i].type = "hydrate"})
    /\ UNCHANGED <<storage, issued, initial, outcome, lastWrite, reads, handled,
                   trail, action>>

\* (mutation) the load effect has state among its dependencies: the commit of
\* a dispatch runs it again
DispatchRerunsLoadEffect(a) ==
    /\ state' = todoReducer(state, a)
    /\ pc' = "mountLoad"
    /\ unsaved' = unsaved + 1
    /\ handled' = TRUE
    /\ UNCHANGED <<hydrated, storage, queued, initial, outcome, lastWrite, latchSets,
                   reads, hydrations, trail, action>>

\* dispatch from an event handler: React renders and commits before the next
\* event, and the commit schedules the write-back effect
Dispatch(a) ==
    /\ state' = todoReducer(state, a)
    /\ pc' = "effect"
    /\ unsaved' = unsaved + 1
    /\ handled' = TRUE
    /\ UNCHANGED <<hydrated, storage, queued, initial, outcome, lastWrite, latchSets,
                   reads, hydrations, trail, action>>

\* (mutation) an id generator that may return an id it returned before
RepeatingId == Ids

\* crypto.randomUUID(), or Math.random().toString(36).slice(2): an id nobody holds
randomUUID == Ids \ issued

\* new Date().toISOString(): the clock has moved on since the last task was made
toISOString == Cardinality(issued)

addTodo(input) ==
    \E id \in randomUUID :
        /\ issued' = issued \cup {id}
        /\ Dispatch(AddAction(NewTodo(id, input.title, input.notes, input.dueDate,
                                      toISOString)))

toggleTodo(id) == Dispatch(ToggleAction(id)) /\ UNCHANGED issued

removeTodo(id) == Dispatch(RemoveAction(id)) /\ UNCHANGED issued

updateTodo(id, data) == Dispatch(UpdateAction(id, data)) /\ UNCHANGED issued

clearCompleted == Dispatch(ClearCompletedAction) /\ UNCHANGED issued

\* (mutation) handleSubmit without the test of the title
handleSubmitUnchecked ==
    /\ pc = "idle"
    /\ \E text \in TextInputs, value \in DateInputValues :
          addTodo([title |-> text.title, notes |-> text.notes,
                   dueDate |-> OrUndefined(value)])

\* onSubmit of the form, with what the fields hold
handleSubmit ==
    /\ pc = "idle"
    /\ \E text \in TextInputs, value \in DateInputValues :
          IF Trim(text.title) = <<>>
          THEN UNCHANGED vars
          ELSE addTodo([title |-> text.title, notes |-> text.notes,
                        dueDate |-> OrUndefined(value)])

\* onClick of the round button of a listed task
ClickToggle ==
    /\ pc = "idle"
    /\ \E i \in 1..Len(state) : toggleTodo(state[i].id)

\* onClick of Delete of a listed task
ClickDelete ==
    /\ pc = "idle"
    /\ \E i \in 1..Len(state) : removeTodo(state[i].id)

\* onClick of Save of the listed task being edited, with what the edit fields hold
saveEdit ==
    /\ pc = "idle"
    /\ \E i \in 1..Len(state) :
       \E edit \in TextInputs, value \in DateInputValues :
          IF Trim(edit.title) = <<>>
          THEN UNCHANGED vars
          ELSE updateTodo(state[i].id,
                          [title |-> Trim(edit.title), notes |-> Trim(edit.notes),
                           dueDate |-> OrUndefined(OrUndefined(value))])

\* onClick of "Clear completed"
ClickClearCompleted ==
    /\ pc = "idle"
    /\ clearCompleted

Next ==
    \/ LoadEffect
    \/ WriteBackEffect
    \/ Rerender
    \/ handleSubmit
    \/ ClickToggle
    \/ ClickDelete
    \/ saveEdit
    \/ ClickClearCompleted

Spec == Init /\ [][Next]_vars

\* React runs the effects of a commit and renders the updates an effect enqueued
LiveSpec ==
    Spec /\ WF_vars(LoadEffect) /\ WF_vars(WriteBackEffect) /\ WF_vars(Rerender)

----------------------------------------------------------------------------
(* todoReducer alone *)

StoreIds == 1..MaxStoreIds

\* Tasks of the three shapes a Todo takes: dueDate undefined, dueDate a date,
\* and no dueDate property (an object JSON.parse returned)
StoreTodo(id, completed) ==
    LET made == IF id % 3 = 2
                THEN NewTodo(id, <<"b">>, <<" ">>, SomeDate, id)
                ELSE NewTodo(id, <<" ", "a", " ">>, <<"n", " ">>, "", id)
        todo == IF id % 3 = 0 THEN StringifyObject(made) ELSE made
    IN Spread(todo, [completed |-> completed])

StoreTodos == {StoreTodo(id, completed) : id \in StoreIds, completed \in BOOLEAN}

\* Partial<Todo> values given to update
StorePartials ==
    {EmptyObject,
     [completed |-> TRUE],
     [title |-> <<"c">>, notes |-> <<>>, dueDate |-> Undefined]}

StorePayloads == {JSONparse(JSONstringify(s)) : s \in PriorStates}

Unique(s) == \A i, j \in 1..Len(s) : s[i].id = s[j].id => i = j

\* The states the store is taken from: up to MaxLen tasks, no id twice
StoreStates ==
    {s \in UNION {[1..n -> StoreTodos] : n \in 0..MaxLen} : Unique(s)}

StoreInit ==
    /\ state \in StoreStates
    /\ hydrated = TRUE
    /\ storage = NullItem
    /\ pc = "store"
    /\ queued = <<>>
    /\ issued = {}
    /\ initial = NullItem
    /\ outcome = "absent"
    /\ lastWrite = "none"
    /\ latchSets = 1
    /\ unsaved = 0
    /\ reads = 0
    /\ hydrations = 0
    /\ handled = FALSE
    /\ trail = <<state>>
    /\ action = NoAction

\* One transition of the store: state becomes todoReducer(state, a).  A run
\* applies one action to the state it starts in, and then possibly the same
\* action once more.
Transition(a) ==
    /\ pc = "store" \/ (pc = "applied" /\ a = action)
    /\ pc' = IF pc = "store" THEN "applied" ELSE "repeated"
    /\ state' = todoReducer(state, a)
    /\ trail' = Append(trail, state')
    /\ action' = a
    /\ UNCHANGED <<hydrated, storage, queued, issued, initial, outcome,
                   lastWrite, latchSets, unsaved, reads, hydrations, handled>>

StoreHydrate ==
    /\ pc \in {"store", "applied"}
    /\ \E todos \in StorePayloads : Transition(HydrateAction(todos))

StoreAdd ==
    /\ pc \in {"store", "applied"}
    /\ \E todo \in StoreTodos : Transition(AddAction(todo))

StoreToggle ==
    /\ pc \in {"store", "applied"}
    /\ \E id \in StoreIds : Transition(ToggleAction(id))

StoreRemove ==
    /\ pc \in {"store", "applied"}
    /\ \E id \in StoreIds : Transition(RemoveAction(id))

StoreUpdate ==
    /\ pc \in {"store", "applied"}
    /\ \E id \in StoreIds, data \in StorePartials : Transition(UpdateAction(id, data))

StoreClearCompleted ==
    /\ pc \in {"store", "applied"}
    /\ Transition(ClearCompletedAction)

StoreNext ==
    \/ StoreHydrate
    \/ StoreAdd
    \/ StoreToggle
    \/ StoreRemove
    \/ StoreUpdate
    \/ StoreClearCompleted

StoreSpec == StoreInit /\ [][StoreNext]_vars

----------------------------------------------------------------------------
(* Claims *)

\* The state the latest transition of the store was applied to
Prior == trail[Len(trail) - 1]

\* The elements of s at the positions in keep, in the order s has them
SubsequenceAt(s, keep) ==
    [i \in 1..Cardinality(keep) |->
        s[CHOOSE j \in keep : Cardinality({m \in keep : m < j}) = i - 1]]

\* C1: the write-back effect writes nothing to the storage slot while hydrated
\* is false: every run of the effect that called setItem ran with hydrated
\* true, and until hydrated is true the slot holds what the session found in it
\* (the empty initial state is not written over saved data).
NoWriteBeforeReady ==
    /\ lastWrite \in {"wrote", "failed"} => hydrated
    /\ ~hydrated => storage = initial

\* C1 witness: the effect has run before the latch was set, over saved tasks
SkippedWriteOverSavedData ==
    /\ lastWrite = "skipped"
    /\ ~hydrated
    /\ Parseable(initial) /\ JSONparse(initial) # <<>>
    /\ storage = initial

\* C2: after every transition the page's handlers and the startup hydrate
\* make, no two tasks of the state have the same id.
IdsUnique == Unique(state)

\* C2 witness: a stored task and a task added in this session, side by side
StoredAndNewTaskTogether ==
    /\ StoredIds(initial) # {}
    /\ \E i, j \in 1..Len(state) :
          state[i].id \in StoredIds(initial) /\ state[j].id \notin StoredIds(initial)

\* C3 (as claimed): a write-back whose setItem threw leaves the session able to
\* take the next intent: the state is kept and the handlers still run.
WriteFailureIsNonFatal == lastWrite = "failed" => pc = "idle"

\* C4: with no write-back pending and none failed, the slot holds exactly the
\* serialization of the current state.
SlotMirrorsState == pc = "idle" => hydrated /\ storage = JSONstringify(state)

\* C4 witness: transitions have emptied a list that was saved, and the slot
\* has followed
SlotFollowedToEmpty ==
    /\ pc = "idle"
    /\ Parseable(initial) /\ JSONparse(initial) # <<>>
    /\ state = <<>>
    /\ storage = JSONstringify(<<>>)

\* C5: hydrated starts false, is true once the startup commit is made whatever
\* the read did, becomes true in every run, never goes back to false, and
\* changes once.
ReadyLatch ==
    /\ ~hydrated
    /\ [](pc \in {"effect", "idle", "crashed"} => hydrated)
    /\ <>hydrated
    /\ [][hydrated => hydrated']_vars
    /\ [](latchSets = IF hydrated THEN 1 ELSE 0)

\* C5 witness: the latch is set after a read that threw
ReadyAfterReadThrew == hydrated /\ outcome = "threw" /\ pc = "idle"

\* C6 (as claimed): when the stored value is absent or malformed or the read
\* throws, the commit that ends startup has the empty state, and the session
\* goes on from there.
StartupFallbackProceeds ==
    [][(pc = "effect" /\ lastWrite = "skipped"
            /\ outcome \in {"absent", "malformed", "threw"})
          => (state = <<>> /\ pc' # "crashed")]_vars

\* C7: add(t) puts t at index 1 and the tasks of the prior state after it, each
\* one place further, in the same order.
AddPrepends ==
    action.type = "add" =>
        /\ Len(state) = Len(Prior) + 1
        /\ state[1] = action.payload
        /\ \A i \in 1..Len(Prior) : state[i + 1] = Prior[i]

\* C7 witness: C added to [B, A] gives [C, B, A]
ThreeAddedInOrder ==
    /\ action.type = "add"
    /\ Len(trail) = 2
    /\ Len(Prior) = 2
    /\ state = <<action.payload, Prior[1], Prior[2]>>
    /\ Cardinality(IdsOf(state)) = 3

\* C8: clearCompleted leaves no completed task, and leaves exactly the tasks of
\* the prior state that were not completed, unchanged and in their order.
ClearCompletedKeepsActive ==
    action.type = "clearCompleted" =>
        /\ \A i \in 1..Len(state) : ~state[i].completed
        /\ state = SubsequenceAt(Prior, {i \in 1..Len(Prior) : ~Prior[i].completed})

\* C8 witness: a completed task between two active ones is cleared
ClearedBetweenActive ==
    /\ action.type = "clearCompleted"
    /\ Len(trail) = 2
    /\ Len(Prior) = 3
    /\ ~Prior[1].completed /\ Prior[2].completed /\ ~Prior[3].completed
    /\ state = <<Prior[1], Prior[3]>>

\* C9: toggle(id) applied twice to a state that holds id gives that state back.
ToggleTwiceIsIdentity ==
    (pc = "repeated" /\ action.type = "toggle"
        /\ action.payload.id \in IdsOf(trail[1]))
    => state = trail[1]

\* C9 witness: the first toggle changed the state, the second restored it
ToggledThereAndBack ==
    /\ pc = "repeated"
    /\ action.type = "toggle"
    /\ action.payload.id \in IdsOf(trail[1])
    /\ trail[2] # trail[1]
    /\ state = trail[1]

\* C10: the second remove(id) changes nothing; the first leaves no task with
\* that id and keeps every other task, in order.
RemoveTwiceIsRemoveOnce ==
    (pc = "repeated" /\ action.type = "remove") =>
        /\ state = trail[2]
        /\ action.payload.id \notin IdsOf(trail[2])
        /\ trail[2] = SubsequenceAt(trail[1],
                         {i \in 1..Len(trail[1]) : trail[1][i].id # action.payload.id})

\* C10 witness: a task removed from the middle, and the remove repeated
RemovedFromMiddleTwice ==
    /\ pc = "repeated"
    /\ action.type = "remove"
    /\ Len(trail[1]) = 3
    /\ trail[1][2].id = action.payload.id
    /\ state = <<trail[1][1], trail[1][3]>>

\* C11: update(id, {}) of an id the state holds gives a state equal to the
\* prior one.
EmptyUpdateIsIdentity ==
    (action.type = "update" /\ DOMAIN action.payload.data = {}
        /\ action.payload.id \in IdsOf(Prior))
    => state = Prior

\* C11 witness: the empty partial given for the middle one of three tasks
EmptyUpdateOfListedTask ==
    /\ pc = "applied"
    /\ action.type = "update"
    /\ DOMAIN action.payload.data = {}
    /\ Len(Prior) = 3
    /\ Prior[2].id = action.payload.id
    /\ state = Prior

\* C12: toggle, remove and update of an id the state does not hold give a
\* state equal to the prior one (todoReducer is defined for every state and
\* action: each case is a map, a filter or a spread).
AbsentIdIsNoOp ==
    (action.type \in {"toggle", "remove", "update"}
        /\ action.payload.id \notin IdsOf(Prior))
    => state = Prior

\* C12 witness: a partial with fields, given for an id a non-empty state lacks
UpdateOfAbsentId ==
    /\ pc = "applied"
    /\ action.type = "update"
    /\ DOMAIN action.payload.data # {}
    /\ Prior # <<>>
    /\ action.payload.id \notin IdsOf(Prior)
    /\ state = Prior

\* todo.dueDate: undefined when the object has no such property
DueDateOf(todo) == IF "dueDate" \in DOMAIN todo THEN todo.dueDate ELSE Undefined

\* The same task, field by field: id, title, notes, completed and createdAt
\* are equal and dueDate reads the same
SameFields(t, u) ==
    /\ \A k \in {"id", "title", "notes", "completed", "createdAt"} :
          k \in DOMAIN t /\ k \in DOMAIN u /\ t[k] = u[k]
    /\ DueDateOf(t) = DueDateOf(u)

SameTasks(s, t) ==
    Len(s) = Len(t) /\ \A i \in 1..Len(s) : SameFields(s[i], t[i])

\* The commit that ends startup has been made and its effect has not run yet
StartupCommitted == pc = "effect" /\ lastWrite = "skipped"

\* C13: what a session writes for a state, parsed and given to hydrate, is that
\* state again: the same tasks in the same order with the same field values, a
\* task without due date still without one.
RoundTrip ==
    pc = "idle" =>
        SameTasks(todoReducer(<<>>, HydrateAction(JSONparse(storage))), state)

\* C13 witness: a written state with a task whose dueDate is undefined, which
\* the stored text leaves out
WroteTaskWithoutDueDate ==
    /\ pc = "idle"
    /\ lastWrite = "wrote"
    /\ \E i \in 1..Len(state) :
          /\ "dueDate" \in DOMAIN state[i] /\ state[i].dueDate = Undefined
          /\ "dueDate" \notin DOMAIN JSONparse(storage)[i]

\* C14: when the slot holds a parseable text at startup, the state of the
\* commit that ends startup is the decoded sequence, task for task.
HydratedVerbatim ==
    (StartupCommitted /\ outcome = "parsed") => state = JSONparse(initial)

\* C14 witness: two stored tasks, one of them completed, are the state
HydratedTwoTasks ==
    /\ StartupCommitted
    /\ outcome = "parsed"
    /\ Len(state) = 2
    /\ state[1].completed /\ ~state[2].completed

NonBlankTrimmed(title) == title # <<>> /\ Trim(title) = title

\* C16: no task of the state and no task of the stored text has an empty or
\* whitespace-only title, and every title is trimmed: handleSubmit and saveEdit
\* dispatch nothing for a blank title.
TitlesNeverBlank ==
    /\ \A i \in 1..Len(state) : NonBlankTrimmed(state[i].title)
    /\ Parseable(storage) =>
          \A i \in 1..Len(JSONparse(storage)) :
              NonBlankTrimmed(JSONparse(storage)[i].title)

\* C16 witness: a task typed as " a " in this session is saved as "a"
SavedTrimmedTitle ==
    /\ pc = "idle"
    /\ \E i \in 1..Len(state) :
          /\ state[i].id \notin StoredIds(initial)
          /\ state[i].title = <<"a">>
          /\ JSONparse(storage)[i].title = <<"a">>

\* The id and the createdAt of each task of s, in order
StampsOf(s) == [i \in 1..Len(s) |-> <<s[i].id, s[i].createdAt>>]

IsSubsequence(t, s) ==
    \E keep \in SUBSET (1..Len(s)) : SubsequenceAt(s, keep) = t

\* C15: whatever a handler dispatches, the tasks that stay keep their id and
\* their createdAt: the stamps after the step are the stamps before it, or those
\* with the stamp of one new task in front, or those without the removed tasks.
StampsImmutable ==
    [][pc = "idle" =>
          \/ StampsOf(state') = StampsOf(state)
          \/ state' # <<>> /\ Tail(StampsOf(state')) = StampsOf(state)
          \/ IsSubsequence(StampsOf(state'), StampsOf(state))]_vars

\* C15 witness: a saved task was edited in this session, after the task saved
\* with it was removed, and still has the id and createdAt it was saved with
EditedTaskKeepsStamp ==
    /\ pc = "idle"
    /\ Parseable(initial)
    /\ Len(JSONparse(initial)) = 2
    /\ Len(state) = 1
    /\ state[1].title = <<"a">>
    /\ \E j \in 1..2 : StampsOf(JSONparse(initial))[j] = StampsOf(state)[1]

\* Where the task with this id is in s, a list that has it once
PositionOf(s, id) == CHOOSE i \in 1..Len(s) : s[i].id = id

\* C17: after toggle, remove, update and clearCompleted, and after add for the
\* tasks that were there before, two tasks present before and after the
\* transition are in the same order after it as before it.
OrderStable ==
    (/\ action.type \in {"add", "toggle", "remove", "update", "clearCompleted"}
     /\ Unique(Prior) /\ Unique(state))
    => \A a, b \in IdsOf(Prior) \cap IdsOf(state) :
          PositionOf(Prior, a) < PositionOf(Prior, b)
              => PositionOf(state, a) < PositionOf(state, b)

\* C17 witness: the first of three tasks was toggled and is still the first
ToggledFirstOfThree ==
    /\ pc = "applied"
    /\ action.type = "toggle"
    /\ Len(Prior) = 3
    /\ action.payload.id = Prior[1].id
    /\ state[1].id = Prior[1].id
    /\ state[1].completed # Prior[1].completed

\* todo is a task of s
Holds(s, todo) == \E j \in 1..Len(s) : s[j] = todo

\* C18: add, toggle and update do not make the list shorter; toggle changes the
\* completed flag of the task with the id and nothing else of it, and no other
\* task; remove keeps every task with another id; clearCompleted keeps every
\* task that is not completed.
NoImplicitDelete ==
    /\ action.type \in {"add", "toggle", "update"} => Len(state) >= Len(Prior)
    /\ action.type = "toggle" =>
          /\ Len(state) = Len(Prior)
          /\ \A i \in 1..Len(Prior) :
                IF Prior[i].id = action.payload.id
                THEN /\ DOMAIN state[i] = DOMAIN Prior[i]
                     /\ \A k \in DOMAIN Prior[i] \ {"completed"} :
                           state[i][k] = Prior[i][k]
                     /\ state[i].completed = ~Prior[i].completed
                ELSE state[i] = Prior[i]
    /\ action.type = "remove" =>
          \A i \in 1..Len(Prior) :
              Prior[i].id # action.payload.id => Holds(state, Prior[i])
    /\ action.type = "clearCompleted" =>
          \A i \in 1..Len(Prior) : ~Prior[i].completed => Holds(state, Prior[i])

\* C18 witness: the second of three tasks, one without dueDate property, was
\* toggled to completed between two tasks that are as they were
ToggledBetweenTwo ==
    /\ pc = "applied"
    /\ action.type = "toggle"
    /\ Len(Prior) = 3
    /\ action.payload.id = Prior[2].id
    /\ "dueDate" \notin DOMAIN Prior[2]
    /\ state[2].completed /\ ~Prior[2].completed
    /\ state[1] = Prior[1] /\ state[3] = Prior[3]

\* C19: once hydrated is true a commit of a change is followed by at most one
\* write: setItem has not returned more often than changes were committed,
\* startup included, and no second change is committed while the write for the
\* first is still to come.
OneWritePerChange == unsaved \in {0, 1}

\* C19 witness: two tasks were added to an empty list, each change written,
\* and no change is waiting for its write
EachChangeWritten ==
    /\ pc = "idle"
    /\ handled
    /\ lastWrite = "wrote"
    /\ unsaved = 0
    /\ Len(state) = 2
    /\ \A i \in 1..2 : state[i].id \notin StoredIds(initial)
    /\ storage = JSONstringify(state)

\* C20: a session calls getItem at most once and gives todoReducer at most
\* one hydrate action; the hydrate action is applied before any event handler
\* has dispatched, to the empty initial state, so it replaces no task the
\* session made.
HydrateOnceAndFirst ==
    /\ [](reads <= 1 /\ hydrations <= 1)
    /\ [][hydrations' # hydrations => (~handled /\ state = <<>>)]_vars

\* C20 witness: after the one read and the one hydrate, a task added in the
\* session stands in front of the task that was stored
AddedAfterHydrate ==
    /\ pc = "idle"
    /\ reads = 1
    /\ hydrations = 1
    /\ handled
    /\ Len(state) = 2
    /\ state[1].id \notin StoredIds(initial)
    /\ state[2].id \in StoredIds(initial)

\* C21: the commit that sets hydrated runs the write-back effect, whether or
\* not a hydrate was applied: it is followed by a call of setItem, and when
\* startup has completed the effect has written, the slot holding the
\* serialized empty list if the stored value was absent or malformed (the
\* malformed text is gone) and the serialized hydrated state if it was parseable.
LatchTriggersWrite ==
    /\ StartupCommitted ~> (lastWrite \in {"wrote", "failed"})
    /\ []((pc = "idle" /\ ~handled) =>
            /\ lastWrite = "wrote"
            /\ outcome \in {"absent", "malformed"} =>
                  storage = JSONstringify(<<>>)
            /\ outcome = "parsed" =>
                  storage = JSONstringify(
                      todoReducer(<<>>, HydrateAction(JSONparse(initial)))))

\* C21 witness: startup found a malformed text, no hydrate was applied and no
\* handler has dispatched, and the slot holds the serialized empty list
MalformedOverwritten ==
    /\ pc = "idle"
    /\ ~handled
    /\ initial = Malformed
    /\ hydrations = 0
    /\ latchSets = 1
    /\ storage = JSONstringify(<<>>)

====
